---------------------------- MODULE Spec2Model ----------------------------
(***************************************************************************)
(* StudyMate (Smart Study Planner), src/script.js: the in-memory store of  *)
(* tasks, goals and settings, its localStorage snapshot, the import        *)
(* handler and the reminder scheduler, as a state machine.                 *)
(*                                                                         *)
(* Time is counted in minutes.  An ISO timestamp is modelled by the minute *)
(* it names; the Unix epoch, which new Date(null) denotes, is a minute far *)
(* before the start of the clock.  A value that may be undefined (a task's *)
(* remindMins, a key of an imported settings object) is <<>> when absent   *)
(* and <<v>> when present; a JavaScript number is <<n>>, and NaN is <<>>.  *)
(* The elements of an imported tasks or goals array carry the fields of a  *)
(* Task or Goal with values of the field's JSON type; the values are       *)
(* otherwise unconstrained (repeated ids, out-of-range numbers).  The      *)
(* numeric controls of the two forms deliver "" or a numeral, the prompts  *)
(* of the editors deliver any text or null (Cancel).  The createdAt stamp   *)
(* of a task or goal, which only the "createdDesc" sort of the task list   *)
(* reads, is not part of the model.  Of the rendering the model has the    *)
(* badges of the task list, the buckets of the timeline and the throw of   *)
(* the first render on a collection that is no array; the buttons offered  *)
(* are those of the tasks and goals in memory, also after a handler that a *)
(* throwing setItem ended before its render.  Number("Infinity") is a      *)
(* number above all others, which JSON.stringify writes as null.  Every    *)
(* delay handed to setTimeout is below the 2^31 ms a browser can count.    *)
(***************************************************************************)
EXTENDS Integers, Sequences, FiniteSets, TLC

(* ------------------------------ bounds --------------------------------- *)

\* Tasks the form may add (an import may bring in more).
MaxTasks == 1

\* Goals the form may add.
MaxGoals == 1

\* Ticks of the clock.
MaxTicks == 2

\* Minutes per tick of the clock.
TickMins == 10

\* Timers the browser holds at once.
MaxTimers == 3

\* Calls of saveData in which localStorage.setItem throws.
MaxThrows == 1

\* Weeks the timeline is moved from the current one, either way.
MaxWeeks == 1

(* ------------------------- program constants --------------------------- *)

\* settings.defaultReminderMins at start.
DefaultReminderMins == 30

\* Upper limit of remindMins in editTask.
MaxRemindMins == 1440

\* Upper limit of progressHours in addHours and editGoal.
MaxProgressHours == 10000

\* new Date(null).getTime(): the Unix epoch, long before the clock starts.
Epoch == -100000

\* Number("Infinity"): above every number the program computes with.
Infinity == 1000000000

\* null where JSON.parse delivers it for a number: below every number, as it
\* counts for 0 in Math.max and is falsy.
NullNumber == -1000000000

\* What prompt() returns on Cancel.
Null == "<null>"

Range(f) == {f[x] : x \in DOMAIN f}

(* ------------------------------ utilities ------------------------------ *)

\* clamp without its lower limit.
clampAbove(n, a, b) == IF b < n THEN b ELSE n

\* Math.max(a, Math.min(b, n))
clamp(n, a, b) ==
  LET m == IF b < n THEN b ELSE n
  IN  IF a > m THEN a ELSE m

\* The numerals the inputs below use, with the number each denotes.
Numeral ==
  [s \in {"0", "1", "2", "5", "10", "20", "30", "45", "2000", "20000", "-5",
          "Infinity"} |->
     CASE s = "0" -> 0 [] s = "1" -> 1 [] s = "2" -> 2 [] s = "5" -> 5
       [] s = "10" -> 10 [] s = "20" -> 20 [] s = "30" -> 30 [] s = "45" -> 45
       [] s = "2000" -> 2000 [] s = "20000" -> 20000 [] s = "-5" -> 0 - 5
       [] s = "Infinity" -> Infinity]

\* Number(s) of a string: 0 for the empty string, NaN (<<>>) for text that is
\* no numeral.
Number(s) ==
  IF s = "" THEN <<0>>
  ELSE IF s \in DOMAIN Numeral THEN <<Numeral[s]>>
  ELSE <<>>

\* A number in a boolean context: NaN and 0 are falsy.
Truthy(x) == x # <<>> /\ x[1] # 0

\* The datetime-local strings the inputs below use, with the minute each names.
DateLiteral ==
  [s \in {"T+20", "T+30", "T+40"} |->
     CASE s = "T+20" -> 20 [] s = "T+30" -> 30 [] s = "T+40" -> 40]

\* parseLocalDateTime(v) = v ? new Date(v) : null.  A Date is valid or Invalid.
parseLocalDateTime(v) ==
  IF v = "" THEN [tag |-> "null", t |-> 0]
  ELSE IF v \in DOMAIN DateLiteral THEN [tag |-> "date", t |-> DateLiteral[v]]
  ELSE [tag |-> "invalid", t |-> 0]

\* toISO(d) = new Date(d).toISOString(): new Date(null) is the epoch, and
\* toISOString of an Invalid Date throws a RangeError (<<>> here).
toISO(d) ==
  CASE d.tag = "null" -> <<Epoch>>
    [] d.tag = "date" -> <<d.t>>
    [] OTHER -> <<>>

\* isNaN(d) of what parseLocalDateTime returns: Number(null) is 0.
isNaNDate(d) == d.tag = "invalid"

\* x.trim() of the texts used here.
trim(s) == IF s = " " THEN "" ELSE s

(* -------------------------------- state -------------------------------- *)

VARIABLES
  tasks,           \* let tasks
  goals,           \* let goals
  settings,        \* let settings
  store,           \* localStorage under the three LS_KEYS
  permission,      \* Notification.permission, "unsupported" without the API
  reminderTimers,  \* const reminderTimers: task id -> timeout handle
  timeouts,        \* the browser's pending setTimeout callbacks, by handle
  clock,           \* Date.now(), in minutes
  thrown,          \* how many calls of saveData ended in a setItem that threw
  weekOffset,      \* let weekOffset: the week the timeline shows, 0 the current one
  delivered,       \* the reminders shown so far: task id and the minute it was for
  last             \* the event handled last: its name, input and outcome

vars == <<tasks, goals, settings, store, permission, reminderTimers, timeouts, clock,
          thrown, weekOffset, delivered, last>>

\* A key of localStorage that was never written.
Absent == <<>>

\* JSON.stringify of a JSON value, as stored under a key; JSON.parse undoes it.
JSONstringify(v) == <<v>>
JSONparse(s) == s[1]

\* The JSON value JSON.stringify writes for a collection: strings, booleans,
\* finite numbers and absent fields as they are, Infinity as null.
jsonNumber(n) == IF n = Infinity THEN NullNumber ELSE n

jsonTasks(ts) ==
  [i \in DOMAIN ts |->
     [ts[i] EXCEPT !.durationMins = jsonNumber(@),
                   !.remindMins = IF @ = <<>> THEN @ ELSE <<jsonNumber(@[1])>>]]

jsonGoals(gs) ==
  [i \in DOMAIN gs |->
     [gs[i] EXCEPT !.targetHours = jsonNumber(@), !.progressHours = jsonNumber(@)]]

jsonSettings(s) == [s EXCEPT !.defaultReminderMins = jsonNumber(@)]

InitialSettings == [defaultReminderMins |-> DefaultReminderMins, notifications |-> "default"]

(* ------------------------------ saveData ------------------------------- *)

\* The three setItem calls of saveData.  localStorage.setItem may throw (quota
\* exceeded, storage disabled): w, which every handler that saves takes from its
\* environment, is the number of calls that succeed before one throws, 3 when
\* none does.
AllWritten == 3

\* saveData without its third setItem.
saveDataTwoKeys(w, st, ts, gs, s) ==
  [tasks    |-> IF w >= 1 THEN JSONstringify(jsonTasks(ts)) ELSE st.tasks,
   goals    |-> IF w >= 2 THEN JSONstringify(jsonGoals(gs)) ELSE st.goals,
   settings |-> st.settings]

saveData(w, st, ts, gs, s) ==
  [tasks    |-> IF w >= 1 THEN JSONstringify(jsonTasks(ts)) ELSE st.tasks,
   goals    |-> IF w >= 2 THEN JSONstringify(jsonGoals(gs)) ELSE st.goals,
   settings |-> IF w >= 3 THEN JSONstringify(jsonSettings(s)) ELSE st.settings]

WriteOutcomes == 0..AllWritten

(* ------------------------------ loadData ------------------------------- *)

\* A stored text that JSON.parse rejects: in two pieces, where the text of a
\* JSON value is in one.
NotParseable == <<"{", "oops">>
Parses(text) == Len(text) = 1

\* What JSON.parse gives for the text "null", where an array is expected; it
\* has no first element and no length.
JSONNullValue == [i \in {0} |-> "null"]
IsArray(v) == 0 \notin DOMAIN v

\* { ...a, ...b }: the properties of b over those of a.
spread(a, b) ==
  [k \in DOMAIN a \cup DOMAIN b |-> IF k \in DOMAIN b THEN b[k] ELSE a[k]]

\* loadData: each key parsed on its own; an absent key gives [] or {}, and so
\* does a text JSON.parse throws on.  Whatever parses is taken as it is.  The
\* settings read are spread over the initial ones.
loadData(st) ==
  [tasks    |-> IF st.tasks = Absent \/ ~Parses(st.tasks) THEN <<>>
                ELSE JSONparse(st.tasks),
   goals    |-> IF st.goals = Absent \/ ~Parses(st.goals) THEN <<>>
                ELSE JSONparse(st.goals),
   settings |-> IF st.settings = Absent \/ ~Parses(st.settings) THEN InitialSettings
                ELSE spread(InitialSettings, JSONparse(st.settings))]

(* -------------------------- reminder scheduler ------------------------- *)

getNotifyPermission == permission

\* The minute a task's reminder is due:
\* dueAt - (t.remindMins ?? settings.defaultReminderMins) minutes.
remindAt(t, s) ==
  t.dueAt - (IF t.remindMins = <<>> THEN s.defaultReminderMins ELSE t.remindMins[1])

\* The handle setTimeout returns: one no pending timer has.
NewHandle(tmo) ==
  CHOOSE h \in 1..(Cardinality(DOMAIN tmo) + 1) :
    /\ h \notin DOMAIN tmo
    /\ \A k \in 1..(h - 1) : k \in DOMAIN tmo

\* The loop of scheduleAllReminders from task i on: a timer for each task that
\* is not completed and whose wait is positive, recorded under the task's id.
RECURSIVE armFrom(_, _, _, _, _, _)
armFrom(i, ts, s, clk, tmo, map) ==
  IF i > Len(ts) THEN [timeouts |-> tmo, reminderTimers |-> map]
  ELSE LET t    == ts[i]
           wait == remindAt(t, s) - clk
       IN  IF t.completed \/ wait <= 0
           THEN armFrom(i + 1, ts, s, clk, tmo, map)
           ELSE LET h == NewHandle(tmo)
                IN  armFrom(i + 1, ts, s, clk,
                            (h :> [task |-> t.id, at |-> clk + wait]) @@ tmo,
                            (t.id :> h) @@ map)

\* scheduleAllReminders: clear every timer of the map and the map, stop unless
\* permission is granted, then arm.
scheduleAllReminders(ts, s, perm, clk, tmo, map) ==
  LET cleared == [h \in DOMAIN tmo \ Range(map) |-> tmo[h]]
  IN  IF perm # "granted"
      THEN [timeouts |-> cleared, reminderTimers |-> <<>>]
      ELSE armFrom(1, ts, s, clk, cleared, <<>>)

(* ------------------------------- Init ---------------------------------- *)

\* The page loaded for the first time: nothing stored, the module's initial
\* values, no timer (the bootstrap's scheduleAllReminders finds no task).
Init ==
  /\ tasks = <<>>
  /\ goals = <<>>
  /\ settings = InitialSettings
  /\ store = [tasks |-> Absent, goals |-> Absent, settings |-> Absent]
  /\ permission \in {"default", "granted", "denied", "unsupported"}
  /\ reminderTimers = <<>>
  /\ timeouts = <<>>
  /\ clock = 0
  /\ thrown = 0
  /\ weekOffset = 0
  /\ delivered = {}
  /\ last = [op |-> "start", arg |-> <<>>, out |-> "ok"]

(* --------------------------- handler endings ---------------------------- *)

UsedIds == {tasks[i].id : i \in DOMAIN tasks} \cup {goals[i].id : i \in DOMAIN goals}

\* uid(): eight base-36 digits of Math.random().  Ids are opaque, so the draw
\* is taken to be the first id, in a fixed order, that no entity has.
uid ==
  IF "a" \notin UsedIds THEN {"a"}
  ELSE IF "b" \notin UsedIds THEN {"b"}
  ELSE {"c"} \ UsedIds

Done(op, arg, out) == last' = [op |-> op, arg |-> arg, out |-> out]

\* scheduleAllReminders() on the new tasks and settings.
Reschedule ==
  LET r == scheduleAllReminders(tasks', settings', permission', clock,
                                timeouts, reminderTimers)
  IN  /\ Cardinality(DOMAIN r.timeouts) <= MaxTimers
      /\ timeouts' = r.timeouts
      /\ reminderTimers' = r.reminderTimers

\* The call of saveData with outcome w.
Saved(w) ==
  /\ store' = saveData(w, store, tasks', goals', settings')
  /\ IF w = AllWritten THEN thrown' = thrown
     ELSE thrown < MaxThrows /\ thrown' = thrown + 1

\* saveData() and then, if no setItem threw, scheduleAllReminders(): the end of
\* every task handler.  A setItem that throws ends the handler there.
SaveAndReschedule(op, arg, w) ==
  /\ Saved(w)
  /\ IF w = AllWritten
     THEN Reschedule /\ Done(op, arg, "ok")
     ELSE UNCHANGED <<reminderTimers, timeouts>> /\ Done(op, arg, "saveError")

\* saveData() alone: the end of the goal handlers and of the default-reminder
\* change.
SaveOnly(op, arg, w) ==
  /\ Saved(w)
  /\ UNCHANGED <<reminderTimers, timeouts>>
  /\ Done(op, arg, IF w = AllWritten THEN "ok" ELSE "saveError")

\* A handler that returns (or throws) before it changes anything.
NoChange(op, arg, out) ==
  /\ UNCHANGED <<tasks, goals, settings, store, permission, reminderTimers, timeouts,
                 clock, weekOffset, delivered, thrown>>
  /\ Done(op, arg, out)

(* -------------------------------- tasks -------------------------------- *)

\* The task the submit handler builds from the form's fields.
NewTask(id, fd) ==
  [id           |-> id,
   title        |-> trim(fd.title),
   subject      |-> trim(fd.subject),
   dueAt        |-> toISO(parseLocalDateTime(fd.dueAt))[1],
   durationMins |-> Number(fd.durationMins)[1],
   priority     |-> IF fd.priority = "" THEN "med" ELSE fd.priority,
   remindMins   |-> IF fd.remindMins = "" THEN <<settings.defaultReminderMins>>
                    ELSE Number(fd.remindMins),
   completed    |-> FALSE]

\* if (!t.title || !t.subject || !t.dueAt || !t.durationMins) return
\* t.dueAt is an ISO string, which is never empty.
TaskRejected(fd) ==
  \/ trim(fd.title) = ""
  \/ trim(fd.subject) = ""
  \/ ~Truthy(Number(fd.durationMins))

\* The submit handler of #task-form.
handleTaskForm(fd, w) ==
  IF toISO(parseLocalDateTime(fd.dueAt)) = <<>>
  THEN NoChange("createTask", fd, "threw")
  ELSE IF TaskRejected(fd)
  THEN NoChange("createTask", fd, "rejected")
  ELSE /\ Len(tasks) < MaxTasks
       /\ \E id \in uid : tasks' = Append(tasks, NewTask(id, fd))
       /\ UNCHANGED <<goals, settings, permission, clock, weekOffset, delivered>>
       /\ SaveAndReschedule("createTask", fd, w)

\* The checkbox of task i: t.completed = e.target.checked.
toggleComplete(i, w) ==
  /\ tasks' = [tasks EXCEPT ![i].completed = ~tasks[i].completed]
  /\ UNCHANGED <<goals, settings, permission, clock, weekOffset, delivered>>
  /\ SaveAndReschedule("toggleTask", tasks[i].id, w)

\* tasks.filter((x) => x.id !== id)
RECURSIVE without(_, _)
without(s, id) ==
  IF s = <<>> THEN <<>>
  ELSE IF Head(s).id = id THEN without(Tail(s), id)
  ELSE <<Head(s)>> \o without(Tail(s), id)

\* The Delete button of task i, confirmed.
deleteTask(i, w) ==
  /\ tasks' = without(tasks, tasks[i].id)
  /\ UNCHANGED <<goals, settings, permission, clock, weekOffset, delivered>>
  /\ SaveAndReschedule("deleteTask", tasks[i].id, w)

\* s.find((x) => x.id === id), as an index; 0 when there is none.
find(s, id) ==
  IF \E i \in DOMAIN s : s[i].id = id
  THEN CHOOSE i \in DOMAIN s : s[i].id = id /\ \A j \in 1..(i - 1) : s[j].id # id
  ELSE 0

\* The six assignments of editTask to task t from the prompts' answers.
Edited(t, in) ==
  [t EXCEPT
     !.title = IF trim(in.title) # "" THEN trim(in.title) ELSE @,
     !.subject = IF trim(in.subject) # "" THEN trim(in.subject) ELSE @,
     !.dueAt = IF ~isNaNDate(parseLocalDateTime(in.dueAt))
               THEN toISO(parseLocalDateTime(in.dueAt))[1] ELSE @,
     !.durationMins = IF Truthy(Number(in.durationMins))
                      THEN Number(in.durationMins)[1] ELSE @,
     !.priority = IF in.priority \in {"low", "med", "high"} THEN in.priority ELSE @,
     !.remindMins =
        <<clamp(IF Truthy(Number(in.remindMins)) THEN Number(in.remindMins)[1]
                ELSE IF @ = <<>> THEN settings.defaultReminderMins ELSE @[1],
                0, MaxRemindMins)>>]

\* editTask(id) from the Edit button of task i; any prompt cancelled abandons
\* the edit.
editTask(i, in, w) ==
  LET j == find(tasks, tasks[i].id)
  IN  IF Null \in {in.title, in.subject, in.dueAt, in.durationMins, in.priority, in.remindMins}
      THEN NoChange("editTask", [id |-> tasks[i].id, in |-> in], "cancelled")
      ELSE /\ tasks' = [tasks EXCEPT ![j] = Edited(tasks[j], in)]
           /\ UNCHANGED <<goals, settings, permission, clock, weekOffset, delivered>>
           /\ SaveAndReschedule("editTask", [id |-> tasks[i].id, in |-> in], w)

(* -------------------------------- goals -------------------------------- *)

NewGoal(id, fd) ==
  [id            |-> id,
   title         |-> trim(fd.title),
   targetHours   |-> Number(fd.targetHours)[1],
   progressHours |-> 0]

\* if (!g.title || !g.targetHours) return
GoalRejected(fd) == trim(fd.title) = "" \/ ~Truthy(Number(fd.targetHours))

\* The submit handler of #goal-form.
handleGoalForm(fd, w) ==
  IF GoalRejected(fd)
  THEN NoChange("createGoal", fd, "rejected")
  ELSE /\ Len(goals) < MaxGoals
       /\ \E id \in uid : goals' = Append(goals, NewGoal(id, fd))
       /\ UNCHANGED <<tasks, settings, permission, clock, weekOffset, delivered>>
       /\ SaveOnly("createGoal", fd, w)

\* addHours(id) from the "+ Hours" button of goal i, the prompt answered n.
addHours(i, n, w) ==
  LET j   == find(goals, goals[i].id)
      val == Number(n)
  IN  IF n = Null
      THEN NoChange("addHours", [id |-> goals[i].id, n |-> n], "cancelled")
      ELSE IF val = <<>> \/ val[1] <= 0
      THEN NoChange("addHours", [id |-> goals[i].id, n |-> n], "rejected")
      ELSE /\ goals' = [goals EXCEPT ![j].progressHours =
                          clamp(@ + val[1], 0, MaxProgressHours)]
           /\ UNCHANGED <<tasks, settings, permission, clock, weekOffset, delivered>>
           /\ SaveOnly("addHours", [id |-> goals[i].id, n |-> n], w)

\* The three assignments of editGoal.
EditedGoal(g, in) ==
  [g EXCEPT
     !.title = IF trim(in.title) # "" THEN trim(in.title) ELSE @,
     !.targetHours = LET n == IF Truthy(Number(in.targetHours))
                              THEN Number(in.targetHours)[1] ELSE @
                     IN  IF n < 1 THEN 1 ELSE n,
     !.progressHours = clamp(IF Truthy(Number(in.progressHours))
                             THEN Number(in.progressHours)[1] ELSE @,
                             0, MaxProgressHours)]

\* editGoal(id) from the Edit button of goal i.
editGoal(i, in, w) ==
  LET j == find(goals, goals[i].id)
  IN  IF Null \in {in.title, in.targetHours, in.progressHours}
      THEN NoChange("editGoal", [id |-> goals[i].id, in |-> in], "cancelled")
      ELSE /\ goals' = [goals EXCEPT ![j] = EditedGoal(goals[j], in)]
           /\ UNCHANGED <<tasks, settings, permission, clock, weekOffset, delivered>>
           /\ SaveOnly("editGoal", [id |-> goals[i].id, in |-> in], w)

\* The Delete button of goal i, confirmed.
deleteGoal(i, w) ==
  /\ goals' = without(goals, goals[i].id)
  /\ UNCHANGED <<tasks, settings, permission, clock, weekOffset, delivered>>
  /\ SaveOnly("deleteGoal", goals[i].id, w)


(* ------------------------------ settings ------------------------------- *)

\* The change handler of #default-reminder:
\* settings.defaultReminderMins = Number(def.value); saveData()
changeDefaultReminder(v, w) ==
  /\ settings' = [settings EXCEPT !.defaultReminderMins = Number(v)[1]]
  /\ UNCHANGED <<tasks, goals, permission, clock, weekOffset, delivered>>
  /\ SaveOnly("changeDefault", v, w)

\* What Notification.requestPermission() may resolve to: the user's answer to
\* the browser's question when none was given yet, else the answer on record.
Answers == IF permission = "default" THEN {"default", "granted", "denied"} ELSE {permission}

\* The click handler of #request-notify: await requestNotifications(), then
\* scheduleAllReminders().  Nothing is changed before the await, so the handler
\* is one step, taken when the promise settles.  Without the Notification API
\* requestNotifications returns at once; a setItem that throws rejects it.
requestNotifications(w) ==
  IF permission = "unsupported"
  THEN /\ UNCHANGED <<tasks, goals, settings, store, permission, clock, weekOffset, delivered, thrown>>
       /\ Reschedule
       /\ Done("requestNotify", "unsupported", "ok")
  ELSE \E perm \in Answers :
         /\ permission' = perm
         /\ settings' = [settings EXCEPT !.notifications = perm]
         /\ UNCHANGED <<tasks, goals, clock, weekOffset, delivered>>
         /\ SaveAndReschedule("requestNotify", perm, w)

(* ------------------------------- import -------------------------------- *)

\* {...settings, ...data.settings}: the keys the document has replace ours.
merge(s, d) ==
  [defaultReminderMins |-> IF d.defaultReminderMins = <<>> THEN s.defaultReminderMins
                           ELSE d.defaultReminderMins[1],
   notifications       |-> IF d.notifications = <<>> THEN s.notifications
                           ELSE d.notifications[1]]

\* The three guarded assignments of reader.onload.
importedTasks(doc) == IF doc.tasks.is = "array" THEN doc.tasks.v ELSE tasks
importedGoals(doc) == IF doc.goals.is = "array" THEN doc.goals.v ELSE goals
importedSettings(doc) ==
  IF doc.settings.is = "object" THEN merge(settings, doc.settings.v) ELSE settings

\* reader.onload of the import: JSON.parse, the three assignments, saveData,
\* the renders, scheduleAllReminders, all inside one try; the catch reports
\* "Invalid file format."  JSON.parse throws on text that is no JSON, and
\* data.tasks throws when the document is the JSON value null.
importData(doc, w) ==
  IF doc.text # "object"
  THEN NoChange("import", doc, "invalidFormat")
  ELSE /\ tasks' = importedTasks(doc)
       /\ goals' = importedGoals(doc)
       /\ settings' = importedSettings(doc)
       /\ UNCHANGED <<permission, clock, weekOffset, delivered>>
       /\ Saved(w)
       /\ IF w = AllWritten
          THEN Reschedule /\ Done("import", doc, "ok")
          ELSE /\ UNCHANGED <<reminderTimers, timeouts>>
               /\ Done("import", doc, "invalidFormat")

(* ------------------------------ bootstrap ------------------------------ *)

\* The page is loaded again: the old page's timers are gone, the module state
\* is initial, and the DOMContentLoaded handler runs loadData(), the renders
\* and, last, scheduleAllReminders().  renderTasks() starts with tasks.slice()
\* and renderGoals() with goals.length: on a value that is no array they throw
\* and the handler ends there.
bootstrap ==
  LET l == loadData(store)
      rendered == IsArray(l.tasks) /\ IsArray(l.goals)
      r == IF rendered
           THEN scheduleAllReminders(l.tasks, l.settings, permission, clock, <<>>, <<>>)
           ELSE [timeouts |-> <<>>, reminderTimers |-> <<>>]
  IN  /\ tasks' = l.tasks
      /\ goals' = l.goals
      /\ settings' = l.settings
      /\ timeouts' = r.timeouts
      /\ reminderTimers' = r.reminderTimers
      /\ weekOffset' = 0
      /\ delivered' = delivered
      /\ UNCHANGED <<store, permission, clock, thrown>>
      /\ Done("bootstrap", <<>>, IF rendered THEN "ok" ELSE "threw")

(* ----------------------------- environment ----------------------------- *)

\* Time passes.
Tick ==
  /\ clock < MaxTicks * TickMins
  /\ clock' = clock + TickMins
  /\ UNCHANGED <<tasks, goals, settings, store, permission, reminderTimers, timeouts,
                 thrown, weekOffset, delivered>>
  /\ Done("tick", <<>>, "ok")

\* showReminder(t): a Notification with permission, else the alert.
showReminder(perm) == IF perm = "granted" THEN "notification" ELSE "alert"

\* The timer with handle h comes due and its callback runs showReminder.
timerFires(h) ==
  /\ timeouts[h].at <= clock
  /\ timeouts' = [k \in DOMAIN timeouts \ {h} |-> timeouts[k]]
  /\ delivered' = delivered \cup {<<timeouts[h].task, timeouts[h].at>>}
  /\ UNCHANGED <<tasks, goals, settings, store, permission, reminderTimers, clock,
                 weekOffset, thrown>>
  /\ Done("timerFires", timeouts[h].task, showReminder(getNotifyPermission))

\* The user changes the site's notification permission in the browser.
permissionChanges(p) ==
  /\ permission # "unsupported"
  /\ p # permission
  /\ permission' = p
  /\ UNCHANGED <<tasks, goals, settings, store, reminderTimers, timeouts, clock, weekOffset, delivered, thrown>>
  /\ Done("permissionChanged", p, "ok")

(* ------------------------------- events -------------------------------- *)

\* The events of the page, with the sets their inputs are drawn from: F forms,
\* E answers to an editor's prompts, H answers to the "Add hours" prompt, V
\* options of the default-reminder control, D documents, W outcomes of the
\* writes to localStorage.
SubmitTask(F, W) == \E fd \in F : \E w \in W : handleTaskForm(fd, w)
ToggleTask(W) == \E i \in DOMAIN tasks : \E w \in W : toggleComplete(i, w)
DeleteTask(W) == \E i \in DOMAIN tasks : \E w \in W : deleteTask(i, w)
EditTask(E, W) == \E i \in DOMAIN tasks : \E in \in E : \E w \in W : editTask(i, in, w)
SubmitGoal(F, W) == \E fd \in F : \E w \in W : handleGoalForm(fd, w)
AddHours(H, W) == \E i \in DOMAIN goals : \E n \in H : \E w \in W : addHours(i, n, w)
EditGoal(E, W) == \E i \in DOMAIN goals : \E in \in E : \E w \in W : editGoal(i, in, w)
DeleteGoal(W) == \E i \in DOMAIN goals : \E w \in W : deleteGoal(i, w)
ChangeDefault(V, W) == \E v \in V : \E w \in W : changeDefaultReminder(v, w)
RequestNotify(W) == \E w \in W : requestNotifications(w)
Import(D, W) == \E doc \in D : \E w \in W : importData(doc, w)
Reload == bootstrap
TimerFires == \E h \in DOMAIN timeouts : timerFires(h)
PermissionChanges == \E p \in {"default", "granted", "denied"} : permissionChanges(p)

(* ------------------------------- inputs -------------------------------- *)

\* What the task form submits.
Form(title, dueAt, durationMins, remindMins) ==
  [title |-> title, subject |-> "algebra", dueAt |-> dueAt,
   durationMins |-> durationMins, priority |-> "med", remindMins |-> remindMins]

\* What the six prompts of editTask are answered with.
Answer(dueAt, remindMins) ==
  [title |-> "", subject |-> "", dueAt |-> dueAt, durationMins |-> "",
   priority |-> "", remindMins |-> remindMins]

\* Documents of the import.
ImportedTask(id, remind) ==
  [id |-> id, title |-> "essay", subject |-> "history", dueAt |-> 30,
   durationMins |-> 60, priority |-> "low", remindMins |-> remind,
   completed |-> FALSE]

ImportedGoal(id, progress) ==
  [id |-> id, title |-> "revise", targetHours |-> 10, progressHours |-> progress]

NoKeys == [defaultReminderMins |-> <<>>, notifications |-> <<>>]
Missing == [is |-> "missing", v |-> <<>>]
Array(v) == [is |-> "array", v |-> v]
MissingObject == [is |-> "missing", v |-> NoKeys]
Object(v) == [is |-> "object", v |-> v]

Document(t, g, s) == [text |-> "object", tasks |-> t, goals |-> g, settings |-> s]
NotJSON == [text |-> "garbage", tasks |-> Missing, goals |-> Missing, settings |-> MissingObject]
JSONnull == [text |-> "null", tasks |-> Missing, goals |-> Missing, settings |-> MissingObject]

(* ------------------------------- export -------------------------------- *)

\* The click handler of #export-data: JSON.stringify({ tasks, goals, settings })
\* offered as a file; the document is the handler's outcome.
exportData ==
  NoChange("export", <<>>,
           Document(Array(jsonTasks(tasks)), Array(jsonGoals(goals)),
                    Object([defaultReminderMins |->
                              <<jsonNumber(settings.defaultReminderMins)>>,
                            notifications |-> <<settings.notifications>>])))

Export == exportData

(* ------------------------------- badges -------------------------------- *)

\* The badges are computed from instants finer than the clock's minutes; here
\* instants are in seconds.
SecsPerMin == 60

\* Math.round(n / d) for d > 0: the nearest integer, a half rounded up.
Round(n, d) == (2 * n + d) \div (2 * d)

\* isOverdue(t) and minutesUntil(date) at the instant now.
isOverdue(t, now) == ~t.completed /\ t.dueAt * SecsPerMin < now
minutesUntil(due, now) == Round(due * SecsPerMin - now, SecsPerMin)

\* The "Overdue" and "Due soon" badges renderTasks() gives task t.
badges(t, now) ==
  [overdue |-> isOverdue(t, now),
   soon    |-> /\ ~t.completed
               /\ minutesUntil(t.dueAt, now) >= 0
               /\ minutesUntil(t.dueAt, now) <= 60]

\* A change of a filter: renderTasks(), sec seconds into the clock's minute.
renderTasks(sec) ==
  NoChange("renderTasks", sec,
           [i \in DOMAIN tasks |-> badges(tasks[i], clock * SecsPerMin + sec)])

FilterChanged(S) == \E sec \in S : renderTasks(sec)

(* ------------------------------ timeline ------------------------------- *)

\* Local calendar time, in minutes from the 00:00 of a Monday; a day has 1440
\* of them (no change of the clocks falls in the weeks shown).
MinsPerDay == 1440

\* The minute 0 of the clock is a Sunday, 23:30: minute 30 is the 00:00 of the
\* Monday after.
ClockStart == 6 * MinsPerDay + 1410
Calendar(t) == t + ClockStart

\* date.getDay(): 0 Sunday, 1 Monday ... 6 Saturday.
getDay(date) == ((date \div MinsPerDay) + 1) % 7

\* date.setHours(0, 0, 0, 0)
midnight(date) == date - (date % MinsPerDay)

\* getWeekRange(offset) when new Date() is today.
getWeekRange(offset, today) ==
  LET diffToMonday == (getDay(today) + 6) % 7
      start == midnight(today) + (7 * offset - diffToMonday) * MinsPerDay
  IN  [start |-> start, end |-> start + 6 * MinsPerDay + (MinsPerDay - 1)]

\* The filter of a day's bucket, a task due at dt exactly: dt >= d && dt < the
\* 00:00 after d.  The second is the same with the 00:00 after d let in.
inDayOrNextMidnight(dt, d) == dt >= d /\ dt <= d + MinsPerDay
inDay(dt, d) == dt >= d /\ dt < d + MinsPerDay

\* Array.prototype.sort by dueAt: ascending, equal ones in their old order.
RECURSIVE sortByDue(_)
sortByDue(s) ==
  IF s = <<>> THEN <<>>
  ELSE LET t      == s[Len(s)]
           sorted == sortByDue(SubSeq(s, 1, Len(s) - 1))
           n      == Cardinality({k \in DOMAIN sorted : sorted[k].dueAt <= t.dueAt})
       IN  SubSeq(sorted, 1, n) \o <<t>> \o SubSeq(sorted, n + 1, Len(sorted))

\* The seven buckets renderTimeline() builds, Monday first.
byDay(ts, start) ==
  [i \in 1..7 |->
     sortByDue(SelectSeq(ts, LAMBDA t :
                 inDay(Calendar(t.dueAt), midnight(start + (i - 1) * MinsPerDay))))]

renderTimeline(offset) == byDay(tasks, getWeekRange(offset, Calendar(clock)).start)

\* The click handlers of #prev-week and #next-week.
prevWeek ==
  /\ weekOffset > 0 - MaxWeeks
  /\ weekOffset' = weekOffset - 1
  /\ UNCHANGED <<tasks, goals, settings, store, permission, reminderTimers, timeouts,
                 clock, thrown, delivered>>
  /\ Done("prevWeek", <<>>, renderTimeline(weekOffset'))

nextWeek ==
  /\ weekOffset < MaxWeeks
  /\ weekOffset' = weekOffset + 1
  /\ UNCHANGED <<tasks, goals, settings, store, permission, reminderTimers, timeouts,
                 clock, thrown, delivered>>
  /\ Done("nextWeek", <<>>, renderTimeline(weekOffset'))

PrevWeek == prevWeek
NextWeek == nextWeek

(* --------------------- Spec: tasks and their reminders ------------------ *)

TaskForms ==
  { Form("math", "T+30", "30", "10"), Form("math", "T+30", "30", ""),
    Form("", "T+30", "30", "10") }

TaskEdits == { Answer("T+40", ""), Answer("T+30", "10"), Answer("T+30", Null) }

DefaultOptions == {"10", "30"}

TaskDocs ==
  { Document(Array(<<ImportedTask("a", <<>>)>>), Missing,
             Object([defaultReminderMins |-> <<10>>, notifications |-> <<>>])),
    Document(Array(<<ImportedTask("a", <<10>>), ImportedTask("a", <<10>>)>>), Missing,
             MissingObject),
    NotJSON }

\* Every write to localStorage succeeds.
Writes == {AllWritten}

Next ==
  \/ SubmitTask(TaskForms, Writes)
  \/ ToggleTask(Writes)
  \/ DeleteTask(Writes)
  \/ EditTask(TaskEdits, Writes)
  \/ ChangeDefault(DefaultOptions, Writes)
  \/ RequestNotify(Writes)
  \/ Import(TaskDocs, Writes)
  \/ Reload
  \/ Tick
  \/ TimerFires
  \/ PermissionChanges

Spec == Init /\ [][Next]_vars

(* ------------------ StoreSpec: the store and its snapshot --------------- *)

StoreTaskForms == { Form("math", "T+30", "30", "10") }

StoreTaskEdits == { Answer("T+30", "10") }

GoalForms == { [title |-> "read", targetHours |-> "10"] }

HourInputs == {"20000"}

GoalEdits == { [title |-> "", targetHours |-> "", progressHours |-> ""] }

StoreDocs ==
  { JSONnull,
    Document(Array(<<ImportedTask("a", <<>>), ImportedTask("a", <<>>)>>),
             Array(<<ImportedGoal("b", 20000), ImportedGoal("b", 0 - 2)>>),
             Object([defaultReminderMins |-> <<45>>, notifications |-> <<>>])) }

\* All three writes succeed, or the second one throws.
StoreWrites == {1, AllWritten}

StoreNext ==
  \/ SubmitTask(StoreTaskForms, StoreWrites)
  \/ ToggleTask(StoreWrites)
  \/ DeleteTask(StoreWrites)
  \/ EditTask(StoreTaskEdits, StoreWrites)
  \/ SubmitGoal(GoalForms, StoreWrites)
  \/ AddHours(HourInputs, StoreWrites)
  \/ EditGoal(GoalEdits, StoreWrites)
  \/ DeleteGoal(StoreWrites)
  \/ ChangeDefault({"45"}, StoreWrites)
  \/ RequestNotify(StoreWrites)
  \/ Import(StoreDocs, StoreWrites)
  \/ Reload

\* The first load in a browser that was not asked for the permission yet.
StoreInit == Init /\ permission = "default"

StoreSpec == StoreInit /\ [][StoreNext]_vars

(* ------------- FieldSpec: the fields of the task form and editor -------- *)

\* Submissions with each required field present, blank, zero, negative or
\* unreadable.
FieldForms ==
  { Form(t, d, m, "10") : t \in {"math", " "}, d \in {"T+30", "", "never"},
                          m \in {"30", "0", "-5"} }
    \cup { [Form("math", "T+30", "30", "") EXCEPT !.subject = ""] }

\* Answers to the six prompts of the editor, valid and invalid for each field;
\* the last prompt may be cancelled.
FieldEdits ==
  [title : {""}, subject : {""}, dueAt : {"", "T+40", "never"},
   durationMins : {"0", "-5", "45"}, priority : {"urgent"},
   remindMins : {"0", "2000", "soon", Null}]
    \cup { [title |-> "physics", subject |-> "optics", dueAt |-> "T+40",
            durationMins |-> "long", priority |-> "high", remindMins |-> "5"] }

FieldNext ==
  \/ SubmitTask(FieldForms, Writes)
  \/ EditTask(FieldEdits, Writes)
  \/ DeleteTask(Writes)

\* The first load in a browser that has granted the permission.
FieldInit == Init /\ permission = "granted"

FieldSpec == FieldInit /\ [][FieldNext]_vars

(* ---------------------- GoalSpec: goals and their hours ----------------- *)

\* Answers to the "Add hours" prompt: positive, negative, zero, no number,
\* cancelled.
GoalHours == {"20000", "-5", "0", "some", Null}

\* A goal whose progress is far below the range, and a document that is no
\* object.
GoalDocs ==
  { Document(Missing, Array(<<ImportedGoal("b", 0 - 30000)>>), MissingObject), JSONnull }

\* All three writes succeed, or the second one (the goals) throws.
GoalWrites == {1, AllWritten}

\* Answers to the three prompts of the goal editor: all kept, or a target
\* without limit.
GoalAnswers ==
  GoalEdits \cup { [title |-> "", targetHours |-> "Infinity", progressHours |-> ""] }

GoalNext ==
  \/ SubmitGoal(GoalForms, GoalWrites)
  \/ AddHours(GoalHours, GoalWrites)
  \/ EditGoal(GoalAnswers, GoalWrites)
  \/ Export
  \/ DeleteGoal(GoalWrites)
  \/ Import(GoalDocs, GoalWrites)
  \/ Reload

GoalSpec == StoreInit /\ [][GoalNext]_vars

(* ----------------- LoadSpec: what a page load finds stored -------------- *)

\* Contents of the three keys as an earlier version, another script or the
\* developer tools may have left them: nothing, a text that does not parse,
\* the text null, or a collection of the expected shape.
StoredTasks ==
  { Absent, NotParseable, JSONstringify(JSONNullValue),
    JSONstringify(<<ImportedTask("a", <<10>>)>>) }

StoredGoals ==
  { Absent, NotParseable, JSONstringify(JSONNullValue),
    JSONstringify(<<ImportedGoal("b", 5)>>) }

StoredSettings ==
  { Absent, NotParseable, JSONstringify([notifications |-> "granted"]),
    JSONstringify([defaultReminderMins |-> 10, notifications |-> "default"]) }

LoadInit ==
  /\ tasks = <<>>
  /\ goals = <<>>
  /\ settings = InitialSettings
  /\ store \in [tasks : StoredTasks, goals : StoredGoals, settings : StoredSettings]
  /\ permission \in {"default", "granted"}
  /\ reminderTimers = <<>>
  /\ timeouts = <<>>
  /\ clock = 0
  /\ thrown = 0
  /\ weekOffset = 0
  /\ delivered = {}
  /\ last = [op |-> "start", arg |-> <<>>, out |-> "ok"]

LoadNext == Reload

LoadSpec == LoadInit /\ [][LoadNext]_vars

(* ------------- TimerSpec: timers over the life of their tasks ----------- *)

\* One task, due at minute 30 with its reminder at minute 20, from the form or
\* from a file; ids stay unique.
TimerForms == { Form("math", "T+30", "30", "10") }
TimerEdits == { Answer("T+40", "") }
TimerDocs == { Document(Array(<<ImportedTask("a", <<10>>)>>), Missing, MissingObject) }

\* setItem throws at the second key, or does not throw.
TimerWrites == {1, AllWritten}

TimerNext ==
  \/ SubmitTask(TimerForms, TimerWrites)
  \/ ToggleTask(TimerWrites)
  \/ DeleteTask(TimerWrites)
  \/ EditTask(TimerEdits, TimerWrites)
  \/ Import(TimerDocs, TimerWrites)
  \/ Reload
  \/ Tick
  \/ TimerFires

TimerSpec == FieldInit /\ [][TimerNext]_vars

(* ------------------ BadgeSpec: the badges of the task list -------------- *)

\* Tasks due at minute 20 or 30, rendered at the start of a minute or some
\* seconds into it, up to and after the due minute.
BadgeForms == { Form("math", "T+20", "30", "10"), Form("math", "T+30", "30", "10") }
Seconds == {0, 20, 30, 31}

BadgeNext ==
  \/ SubmitTask(BadgeForms, Writes)
  \/ ToggleTask(Writes)
  \/ DeleteTask(Writes)
  \/ Tick
  \/ FilterChanged(Seconds)

BadgeSpec == StoreInit /\ [][BadgeNext]_vars

(* ----------------- TimelineSpec: the weeks of the timeline -------------- *)

\* An imported task due at the given minute.
DueAt(id, due) == [ImportedTask(id, <<>>) EXCEPT !.dueAt = due]

\* Tasks due on either side of the 00:00 between two weeks and at it, a day
\* later and long ago, later ones first.
TimelineDocs ==
  { Document(Array(<<DueAt("e", 30 + MinsPerDay), DueAt("d", 40), DueAt("c", 30),
                     DueAt("b", 29), DueAt("a", 20), DueAt("f", Epoch)>>),
             Missing, MissingObject) }

TimelineNext ==
  \/ SubmitTask(TaskForms, Writes)
  \/ DeleteTask(Writes)
  \/ Import(TimelineDocs, Writes)
  \/ PrevWeek
  \/ NextWeek
  \/ Reload
  \/ Tick

TimelineSpec == StoreInit /\ [][TimelineNext]_vars

(* ---------------------- properties of the scheduler --------------------- *)

\* The tasks a run of scheduleAllReminders now would arm a timer for: those
\* not completed whose reminder minute is strictly later than the clock.
Eligible ==
  {i \in DOMAIN tasks : ~tasks[i].completed /\ remindAt(tasks[i], settings) > clock}

\* The pending timers are, one for one, the timers of the eligible tasks, each
\* due at its task's reminder minute; none is pending without the permission.
ArmedExactly ==
  IF permission # "granted" THEN DOMAIN timeouts = {}
  ELSE \E f \in [Eligible -> DOMAIN timeouts] :
         /\ \A i, j \in Eligible : f[i] = f[j] => i = j
         /\ \A h \in DOMAIN timeouts : \E i \in Eligible : f[i] = h
         /\ \A i \in Eligible :
              timeouts[f[i]] = [task |-> tasks[i].id, at |-> remindAt(tasks[i], settings)]

\* The handlers that end in a call of scheduleAllReminders.
Rescheduling == {"createTask", "toggleTask", "deleteTask", "editTask", "requestNotify",
                 "import", "bootstrap"}

\* C1: right after scheduleAllReminders has returned, the armed timers are
\* exactly these: none unless the permission is granted, else one for each task
\* that is not completed and whose reminder minute (dueAt minus remindMins, or
\* minus the default when remindMins is unset) is strictly later than now, due
\* at that minute.
C1_ArmedTimersExact ==
  (last.op \in Rescheduling /\ last.out = "ok") => ArmedExactly

\* C2: a reminder timer that fires never delivers through the blocking alert,
\* also when the permission was taken back after the timer was armed.
C2_AlertNeverUnattended ==
  ~(last.op = "timerFires" /\ last.out = "alert")

\* The events the scheduler is to follow: the four task mutations, a change of
\* the default reminder, a change of the notification permission (asked for in
\* the page or made in the browser) and the start of the page.
Triggers == {"createTask", "toggleTask", "deleteTask", "editTask", "changeDefault",
             "requestNotify", "permissionChanged", "bootstrap"}

\* The pending timers as the set of their tasks and minutes.
Pending(tmo) == {<<tmo[h].task, tmo[h].at>> : h \in DOMAIN tmo}

\* C3: when the handler of a trigger has finished, the armed timers are what
\* scheduleAllReminders computes from the tasks, settings and permission of that
\* moment: running it once more would change no timer.
C3_RescheduledOnEveryTrigger ==
  (last.op \in Triggers /\ last.out = "ok") =>
    Pending(timeouts) =
      Pending(scheduleAllReminders(tasks, settings, permission, clock,
                                   timeouts, reminderTimers).timeouts)

(* ------------------------ properties of the store ----------------------- *)

\* The snapshot under each of the three keys is the collection in memory, as
\* JSON.stringify writes it.
Persisted ==
  store = [tasks    |-> JSONstringify(jsonTasks(tasks)),
           goals    |-> JSONstringify(jsonGoals(goals)),
           settings |-> JSONstringify(jsonSettings(settings))]

\* The handlers that change tasks, goals or settings.
Mutating == {"createTask", "editTask", "toggleTask", "deleteTask", "createGoal",
             "editGoal", "addHours", "deleteGoal", "changeDefault", "requestNotify",
             "import"}

\* The last handler made its change: it was not turned away at its checks
\* (a rejected form, a cancelled prompt, a document that does not parse, a
\* browser without notifications).
Mutated ==
  /\ last.op \in Mutating
  /\ \/ last.out \in {"ok", "saveError"}
     \/ last.op = "import" /\ last.arg.text = "object"
  /\ last.op = "requestNotify" => last.arg # "unsupported"

Malformed(doc) ==
  \/ doc.text # "object"
  \/ doc.tasks.is # "array"
  \/ doc.goals.is # "array"
  \/ doc.settings.is # "object"

\* C6: an import applies nothing partially: when tasks is not an array, or
\* goals is not an array, or settings is not an object, the tasks, goals and
\* settings in memory and the stored snapshot all stay as they were.
C6_ImportAllOrNothing ==
  [][(last'.op = "import" /\ Malformed(last'.arg))
       => UNCHANGED <<tasks, goals, settings, store>>]_vars

\* C7: an import that ends by reporting "Invalid file format." leaves the
\* tasks, goals and settings in memory as they were before it, whatever made
\* it fail.
C7_InvalidFormatLeavesMemory ==
  [][(last'.op = "import" /\ last'.out = "invalidFormat")
       => UNCHANGED <<tasks, goals, settings>>]_vars

\* C9: no two tasks share an id and no two goals share an id, in every
\* reachable state.
C9_IdsUnique ==
  /\ \A i, j \in DOMAIN tasks : tasks[i].id = tasks[j].id => i = j
  /\ \A i, j \in DOMAIN goals : goals[i].id = goals[j].id => i = j

\* C10: every goal's progressHours is within [0, 10000], in every reachable
\* state.
C10_ProgressInRange ==
  \A i \in DOMAIN goals :
    goals[i].progressHours >= 0 /\ goals[i].progressHours <= MaxProgressHours

(* ------------------- properties of the task form and editor ------------ *)

\* A submission with a title, a subject, a due time and a positive duration.
Acceptable(fd) ==
  /\ trim(fd.title) # ""
  /\ trim(fd.subject) # ""
  /\ parseLocalDateTime(fd.dueAt).tag = "date"
  /\ Number(fd.durationMins) # <<>>
  /\ Number(fd.durationMins)[1] > 0

\* C5: a submission of the task form that lacks a title, a subject, a due
\* time or a positive duration (an empty due field, a negative duration) is
\* rejected, and leaves the tasks, the stored snapshot and the armed timers as
\* they were.
C5_InvalidSubmissionRejected ==
  [][(last'.op = "createTask" /\ ~Acceptable(last'.arg))
       => UNCHANGED <<tasks, store, timeouts, reminderTimers>>]_vars

\* Task t edited field by field: an answer valid for its field becomes the
\* field's value, any other leaves the field as it was.  A reminder is valid
\* when it is a number that is not negative, and is clamped to [0, 1440].
EditedPerField(t, in) ==
  [t EXCEPT
     !.title = IF trim(in.title) # "" THEN trim(in.title) ELSE @,
     !.subject = IF trim(in.subject) # "" THEN trim(in.subject) ELSE @,
     !.dueAt = IF parseLocalDateTime(in.dueAt).tag = "date"
               THEN parseLocalDateTime(in.dueAt).t ELSE @,
     !.durationMins = IF Number(in.durationMins) # <<>> /\ Number(in.durationMins)[1] > 0
                      THEN Number(in.durationMins)[1] ELSE @,
     !.priority = IF in.priority \in {"low", "med", "high"} THEN in.priority ELSE @,
     !.remindMins = IF in.remindMins # "" /\ Number(in.remindMins) # <<>>
                       /\ Number(in.remindMins)[1] >= 0
                    THEN <<clamp(Number(in.remindMins)[1], 0, MaxRemindMins)>>
                    ELSE @]

\* C8: an edit of a task takes, for each of the six fields on its own, the
\* answer if it is valid for the field and the previous value if it is not (an
\* empty due input keeps dueAt, a zero or negative duration keeps durationMins,
\* a reminder of 0 sets remindMins to 0), and leaves remindMins in [0, 1440].
C8_EditKeepsOldIfInvalid ==
  [][(last'.op = "editTask" /\ last'.out = "ok")
       => LET j == find(tasks, last'.arg.id)
          IN  /\ tasks' = [tasks EXCEPT ![j] = EditedPerField(tasks[j], last'.arg.in)]
              /\ tasks'[j].remindMins # <<>>
              /\ tasks'[j].remindMins[1] \in 0..MaxRemindMins]_vars

(* --------------------------- properties of goals ------------------------ *)

\* An answer to the "Add hours" prompt that is a number above zero.
PositiveHours(n) == n # Null /\ Number(n) # <<>> /\ Number(n)[1] > 0

\* The step is the "Add hours" handler adding to one goal with the id asked
\* for, whose progressHours becomes p(old + hours), and to nothing else.
AddsHours(p(_)) ==
  /\ \E j \in DOMAIN goals :
       /\ goals[j].id = last'.arg.id
       /\ goals' = [goals EXCEPT ![j].progressHours =
                      p(goals[j].progressHours + Number(last'.arg.n)[1])]
  /\ UNCHANGED <<tasks, settings>>

\* min(h, 10000)
AtMostLimit(h) == IF h > MaxProgressHours THEN MaxProgressHours ELSE h

\* h clamped to [0, 10000]
WithinLimits(h) == IF AtMostLimit(h) < 0 THEN 0 ELSE AtMostLimit(h)

Once ==
  scheduleAllReminders(tasks, settings, permission, clock, timeouts, reminderTimers)

Twice ==
  scheduleAllReminders(tasks, settings, permission, clock,
                       Once.timeouts, Once.reminderTimers)

\* C12: scheduleAllReminders called twice in succession, with the same tasks,
\* settings, permission and time, leaves the armed (task, minute) timers that
\* one call leaves, one live timer for each scheduled task, and no timer armed
\* that the task-id mapping does not record.
C12_RescheduleIdempotent ==
  /\ Pending(Twice.timeouts) = Pending(Once.timeouts)
  /\ Cardinality(DOMAIN Twice.timeouts) = Cardinality(DOMAIN Once.timeouts)
  /\ Cardinality(DOMAIN Twice.timeouts) =
       (IF permission = "granted" THEN Cardinality(Eligible) ELSE 0)
  /\ DOMAIN Twice.timeouts \subseteq Range(Twice.reminderTimers)

(* ---------------------- properties of export and import ----------------- *)

\* What the import handler leaves in a store that was just started (no tasks,
\* no goals, the initial settings) when it is given the document doc.
FreshImport(doc) ==
  [tasks    |-> IF doc.tasks.is = "array" THEN doc.tasks.v ELSE <<>>,
   goals    |-> IF doc.goals.is = "array" THEN doc.goals.v ELSE <<>>,
   settings |-> IF doc.settings.is = "object"
                THEN merge(InitialSettings, doc.settings.v) ELSE InitialSettings]

\* C13: the export document of any reachable state, imported into a fresh
\* store, gives tasks, goals and settings equal field for field to those
\* exported.
C13_ExportImportRoundTrip ==
  last.op = "export" =>
    FreshImport(last.out) = [tasks |-> tasks, goals |-> goals, settings |-> settings]

(* --------------------------- properties of delete ----------------------- *)

\* The sequence s without its element at position i.
RemoveAt(s, i) == [j \in 1..(Len(s) - 1) |-> IF j < i THEN s[j] ELSE s[j + 1]]

\* s' is s without one entity of the given id, the rest as they were and in
\* their order; deleting the id from s' once more changes nothing.
RemovesOne(s, after, id) ==
  /\ \E i \in DOMAIN s : s[i].id = id /\ after = RemoveAt(s, i)
  /\ without(after, id) = after

\* C14: deleting a task (or goal) removes that entity, leaves every other
\* task and every goal (or every other goal and every task) as it was and in
\* its order, and deleting the same id again changes nothing.
C14_DeleteRemovesOnlyThat ==
  [][/\ last'.op = "deleteTask" =>
          RemovesOne(tasks, tasks', last'.arg) /\ UNCHANGED <<goals, settings>>
     /\ last'.op = "deleteGoal" =>
          RemovesOne(goals, goals', last'.arg) /\ UNCHANGED <<tasks, settings>>]_vars

(* ---------------------------- properties of load ----------------------- *)

\* What a key's text gives when it is an array, and nothing otherwise.
Usable(text) ==
  IF text # Absent /\ Parses(text) /\ IsArray(JSONparse(text))
  THEN JSONparse(text) ELSE <<>>

\* C15: whatever the three keys hold, the page starts: no step of the startup
\* raises, tasks and goals are sequences afterwards, each the stored one when
\* that is usable and empty otherwise, whatever the other keys hold, and
\* settings has a defaultReminderMins.
C15_LoadNeverFails ==
  last.op = "bootstrap" =>
    /\ last.out = "ok"
    /\ IsArray(tasks) /\ tasks = Usable(store.tasks)
    /\ IsArray(goals) /\ goals = Usable(store.goals)
    /\ "defaultReminderMins" \in DOMAIN settings

(* ---------------------- properties of the reminder map ------------------ *)

\* C16: the reminder map has one entry per task id at most (it is a map), each
\* entry is the handle of a timer that is still pending, and every pending
\* timer is an entry of the map.
C16_MapIsThePendingTimers ==
  /\ Range(reminderTimers) \subseteq DOMAIN timeouts
  /\ DOMAIN timeouts \subseteq Range(reminderTimers)

(* --------------------------- properties of badges ----------------------- *)

\* C17: no task is shown both overdue and due soon, and a completed task is
\* shown as neither.
C17_SoonExcludesOverdue ==
  last.op = "renderTasks" =>
    \A i \in DOMAIN tasks :
      /\ ~(last.out[i].overdue /\ last.out[i].soon)
      /\ tasks[i].completed => ~last.out[i].overdue /\ ~last.out[i].soon

(* ------------------------- properties of the timeline ------------------- *)

MinsPerWeek == 7 * MinsPerDay

\* The 00:00 of the Monday of the week shown: that of the week today is in,
\* moved by weekOffset weeks.
ShownMonday ==
  (Calendar(clock) \div MinsPerWeek) * MinsPerWeek + weekOffset * MinsPerWeek

\* The bucket of a task of the week shown: the day its due minute falls on.
DayOf(t) == ((Calendar(t.dueAt) - ShownMonday) \div MinsPerDay) + 1

\* How often task t is in the sequence s.
Count(t, s) == Cardinality({k \in DOMAIN s : s[k] = t})

\* C18: the timeline just rendered has every task due in the week shown
\* (Monday 00:00 up to the end of Sunday) in the bucket of its day and in no
\* other, a task due outside that week in none, and each bucket in ascending
\* order of dueAt.
C18_BucketsPartitionWeek ==
  last.op \in {"prevWeek", "nextWeek"} =>
    /\ \A k \in DOMAIN tasks : \A b \in 1..7 :
         Count(tasks[k], last.out[b]) =
           (IF /\ Calendar(tasks[k].dueAt) >= ShownMonday
               /\ Calendar(tasks[k].dueAt) < ShownMonday + MinsPerWeek
               /\ b = DayOf(tasks[k])
            THEN Count(tasks[k], tasks) ELSE 0)
    /\ \A b \in 1..7 : \A k \in DOMAIN last.out[b] :
         /\ \E j \in DOMAIN tasks : tasks[j] = last.out[b][k]
         /\ k > 1 => last.out[b][k - 1].dueAt <= last.out[b][k].dueAt

\* The next week is shown: two tasks share its Monday, the one due at 00:00
\* first though listed last, a third is in its Tuesday and the tasks of the
\* week before are in no bucket.
C18_WeekWithTwoInADay ==
  /\ last.op = "nextWeek"
  /\ weekOffset = 1
  /\ Len(last.out[1]) = 2
  /\ last.out[1][1].dueAt = 30
  /\ Len(last.out[2]) = 1
  /\ \E k \in DOMAIN tasks : \A b \in 1..7 : Count(tasks[k], last.out[b]) = 0

(* --------------------- properties of reminder delivery ------------------ *)

\* The timer with handle h is the one of an open task, due at the task's
\* reminder minute, and the step leaves the task as it is: it is still in
\* tasks, unchanged, and the step is no edit, toggle or delete of it.
Untouched(h) ==
  /\ \E i \in DOMAIN tasks :
       /\ tasks[i].id = timeouts[h].task /\ ~tasks[i].completed
       /\ remindAt(tasks[i], settings) = timeouts[h].at
       /\ \E j \in DOMAIN tasks' : tasks'[j] = tasks[i]
  /\ ~(last'.op = "editTask" /\ last'.arg.id = timeouts[h].task)
  /\ ~(last'.op \in {"toggleTask", "deleteTask"} /\ last'.arg = timeouts[h].task)

\* C19: a timer armed for an open task is not lost: while the task is left as
\* it is, the permission stays granted, the settings stay and the page is not
\* loaded again, every step either leaves the timer armed or is its firing,
\* at its minute or later, with the notification of that task.
C19_ReminderNotLost ==
  [][\A h \in DOMAIN timeouts :
       ( /\ Untouched(h)
         /\ permission = "granted" /\ permission' = "granted"
         /\ settings' = settings
         /\ last'.op # "bootstrap" )
       => \/ \E k \in DOMAIN timeouts' : timeouts'[k] = timeouts[h]
          \/ /\ last'.op = "timerFires"
             /\ last'.arg = timeouts[h].task
             /\ last'.out = "notification"
             /\ clock >= timeouts[h].at]_vars

\* C20: every armed timer is that of a task that is among the tasks and not
\* completed, whatever was created, edited, toggled, deleted, imported or has
\* fired before, also when a write of saveData has failed.
C20_NoTimerWithoutOpenTask ==
  \A h \in DOMAIN timeouts :
    \E i \in DOMAIN tasks : tasks[i].id = timeouts[h].task /\ ~tasks[i].completed

(* ------------------- properties of repeated delivery -------------------- *)

\* The reminder that fires is that of a single task: one task carries the id,
\* it did before the step, and it is unchanged by it.
OfOneTask(x) ==
  /\ Cardinality({i \in DOMAIN tasks : tasks[i].id = x}) = 1
  /\ tasks' = tasks
  /\ settings' = settings

\* C21: a task's reminder for a minute is shown once at most: a timer that
\* fires for a task shows a reminder, for that task and minute, that was not
\* shown before, however often the timers were re-armed, the task toggled or
\* the page loaded again in between.
C21_RemindedOnce ==
  [][(last'.op = "timerFires" /\ OfOneTask(last'.arg)) => delivered' # delivered]_vars

=============================================================================
